---- MODULE Spec2Model ----
(***************************************************************************)
(* Model of streamlit_app.py: the Asepeyo energy-audit dashboard.          *)
(*                                                                         *)
(* One Streamlit session is modelled: every script run executes            *)
(* load_data (memoised by @st.cache_data), then either the warning branch  *)
(* (empty DataFrame) or the sidebar filter, the KPIs, the grouped          *)
(* aggregates and the Madrid detail.  The environment may delete, rewrite  *)
(* or chmod the CSV file at any time, and the user may change the          *)
(* selectbox, which reruns the script.                                     *)
(*                                                                         *)
(* Cells are tagged values so that pandas' mixed-type columns can be       *)
(* represented: Str(s) a text cell, Num(n) a number, NaN a missing value.  *)
(* float64 arithmetic is modelled exactly: numbers are integers and a      *)
(* quotient is the pair [num, den]; den = 0 marks a division by zero.      *)
(* The file is assumed to carry the seven required columns.                *)
(***************************************************************************)
EXTENDS Integers, Sequences, FiniteSets, TLC

VARIABLES fs, cache, widget, pc, fault, loadOutcome, df, selected,
          df_filtered, kpi, agg, df_madrid, rendered

vars == <<fs, cache, widget, pc, fault, loadOutcome, df, selected,
          df_filtered, kpi, agg, df_madrid, rendered>>

runVars == <<df, selected, df_filtered, kpi, agg, df_madrid, rendered>>

----------------------------------------------------------------------------
(* Bounds *)

\* Longest CSV body (data rows) present when the session starts.
MaxRows == 2

\* Longest CSV body the environment writes while the session is running.
MaxEditRows == 1

----------------------------------------------------------------------------
(* Cell values *)

Str(s) == [s |-> s]
Num(n) == [n |-> n]
NaN == [nan |-> TRUE]
None == [none |-> TRUE]

IsStr(c) == DOMAIN c = {"s"}
IsNum(c) == DOMAIN c = {"n"}

\* A quotient a / b of two float64 values, kept exact.
Quot(a, b) == [num |-> a, den |-> b]
\* The Python literal 0 as a quotient.
Zero == Quot(0, 1)
\* x * 100
Times100(q) == Quot(q.num * 100, q.den)
\* Equality of two quotients as real numbers (both denominators non-zero).
SameNumber(p, q) == p.den # 0 /\ q.den # 0 /\ p.num * q.den = q.num * p.den

----------------------------------------------------------------------------
(* Columns *)

ColCommunity == "Comunidad Autonoma"
NumericCols == {"Energy Saved", "Money Saved", "Investment", "Pay back period"}
TextCols == {ColCommunity, "Center", "Measure"}
Columns == TextCols \cup NumericCols

\* The raw text of one CSV line, by column.
RawRow(ca, center, measure, energy, money, inv, payback) ==
    [c \in Columns |->
        CASE c = ColCommunity -> ca
          [] c = "Center" -> center
          [] c = "Measure" -> measure
          [] c = "Energy Saved" -> energy
          [] c = "Money Saved" -> money
          [] c = "Investment" -> inv
          [] c = "Pay back period" -> payback]

\* The CSV lines the environment may put in the file.
RawRows ==
    { RawRow("Madrid",   "Centro A", "LED",  "2",  "1",   "4",   "3"),
      RawRow("Madrid",   "",         "",     "-3", "2",   "N/A", ""),
      RawRow("Madrid",   "Centro B", "LED",  "1",  "",    "0",   "0"),
      RawRow("Cataluna", "Centro B", "HVAC", "0",  "0",   "2",   "x"),
      RawRow("Cataluna", "Centro A", "LED",  "",   "3",   "1",   "2"),
      RawRow("",         "Centro A", "LED",  "1",  "abc", "-4",  "1") }

RECURSIVE SeqsUpTo(_, _)
SeqsUpTo(S, n) ==
    IF n = 0 THEN {<<>>}
    ELSE LET shorter == SeqsUpTo(S, n - 1)
         IN  shorter \cup {Append(s, x) : s \in shorter, x \in S}

Missing == [kind |-> "missing", rows |-> <<>>]
Unreadable(rows) == [kind |-> "unreadable", rows |-> rows]
File(rows) == [kind |-> "file", rows |-> rows]

----------------------------------------------------------------------------
(* load_data *)

\* Texts pandas.read_csv reads as a missing value.
NaValues == {"", "N/A", "NA", "NaN", "nan", "null", "NULL", "#N/A", "n/a"}

\* The texts of the alphabet that parse as a number, with their value.
NumLit ==
    ("-4" :> -4) @@ ("-3" :> -3) @@ ("0" :> 0) @@ ("1" :> 1) @@
    ("2" :> 2) @@ ("3" :> 3) @@ ("4" :> 4)

\* pd.read_csv on one cell: a missing-value text is NaN, anything else is
\* kept (numeric columns are converted by ToNumeric right after).
ReadCsvCell(text) == IF text \in NaValues THEN NaN ELSE Str(text)

ToNumericIgnore(c) ==
    IF IsStr(c) /\ c.s \in DOMAIN NumLit THEN Num(NumLit[c.s]) ELSE c

\* pd.to_numeric(..., errors='coerce') on one cell.
ToNumeric(c) ==
    IF IsNum(c) THEN c
    ELSE IF IsStr(c) /\ c.s \in DOMAIN NumLit THEN Num(NumLit[c.s])
    ELSE NaN

\* st.error(...) of load_data and st.warning(...) of the else branch.
ErrorMsg == "error: file not found"
WarningMsg == "warning: data could not be loaded"

EmptyDataFrame == [columns |-> {}, rows |-> <<>>]

\* pd.read_csv(file_path): the parsed frame, or the exception raised.
ReadCsv(f) ==
    CASE f.kind = "missing" -> [exc |-> "FileNotFoundError"]
      [] f.kind = "unreadable" -> [exc |-> "PermissionError"]
      [] f.kind = "file" ->
            [exc |-> "",
             frame |-> [columns |-> Columns,
                        rows |-> [i \in 1..Len(f.rows) |->
                                    [c \in Columns |-> ReadCsvCell(f.rows[i][c])]]]]

\* The for loop over the four numeric columns.
ConvertNumeric(frame) ==
    [frame EXCEPT !.rows =
        [i \in 1..Len(frame.rows) |->
            [c \in frame.columns |->
                IF c \in NumericCols THEN ToNumeric(frame.rows[i][c])
                ELSE frame.rows[i][c]]]]

NoFillna(frame) == frame

\* df.fillna(0, inplace=True): every NaN of every column becomes 0.
Fillna(frame) ==
    [frame EXCEPT !.rows =
        [i \in 1..Len(frame.rows) |->
            [c \in frame.columns |->
                IF frame.rows[i][c] = NaN THEN Num(0) ELSE frame.rows[i][c]]]]

CaughtAnyOSError(exc) == exc \in {"FileNotFoundError", "PermissionError"}

\* except FileNotFoundError
Caught(exc) == exc = "FileNotFoundError"

NotCached(c) == FALSE

\* @st.cache_data: a value is stored for the (only) path argument.
ServedFromCache(c) == c.hit

NoCache == [hit |-> FALSE, value |-> EmptyDataFrame, msgs |-> {}]

\* The body of load_data: [exc, value, msgs].
LoadDataBody(f) ==
    LET r == ReadCsv(f)
    IN  IF r.exc = ""
        THEN [exc |-> "", value |-> Fillna(ConvertNumeric(r.frame)), msgs |-> {}]
        ELSE IF Caught(r.exc)
        THEN [exc |-> "", value |-> EmptyDataFrame, msgs |-> {ErrorMsg}]
        ELSE [exc |-> r.exc, value |-> EmptyDataFrame, msgs |-> {}]

NeverEmpty(frame) == FALSE

\* DataFrame.empty
DfEmpty(frame) == frame.rows = <<>> \/ frame.columns = {}

----------------------------------------------------------------------------
(* Sidebar filter *)

All == Str("All")
Madrid == Str("Madrid")

\* df[col].unique()
Unique(frame, col) == {frame.rows[i][col] : i \in 1..Len(frame.rows)}

\* sorted(...) raises TypeError on a list that mixes str with numbers.
SortedRaises(values) == \E a, b \in values : IsStr(a) /\ ~IsStr(b)

\* community_list, as the set of options of the selectbox.
CommunityList(frame) == {All} \cup Unique(frame, ColCommunity)

FilterIgnored(frame, sel) == frame

\* df if 'All' else df[df['Comunidad Autonoma'] == selected_community]
DfFiltered(frame, sel) ==
    IF sel = All THEN frame
    ELSE [frame EXCEPT !.rows =
            SelectSeq(frame.rows, LAMBDA r : r[ColCommunity] = sel /\ sel # NaN)]

\* The frame the name df_filtered refers to: df itself under 'All'.
Deref(d, f) == IF f.alias THEN d ELSE f.frame

----------------------------------------------------------------------------
(* KPIs and grouped aggregates *)

\* Series.sum(): NaN cells are skipped.
RECURSIVE Sum(_, _)
Sum(rows, col) ==
    IF rows = <<>> THEN 0
    ELSE (IF IsNum(Head(rows)[col]) THEN Head(rows)[col].n ELSE 0)
         + Sum(Tail(rows), col)

CountDistinct(rows, col) ==
    Cardinality({rows[i][col] : i \in 1..Len(rows)} \ {NaN})

\* SeriesGroupBy.count(): the cells that are not NaN.
Count(rows, col) == Cardinality({i \in 1..Len(rows) : rows[i][col] # NaN})

\* groupby(col): the keys (NaN keys are dropped) and each key's rows.
GroupKeys(frame, col) == Unique(frame, col) \ {NaN}
Group(frame, col, k) == SelectSeq(frame.rows, LAMBDA r : r[col] = k)

RoiUnguarded(money, investment) == Times100(Quot(money, investment))

\* roi
Roi(money, investment) ==
    IF investment > 0 THEN Times100(Quot(money, investment)) ELSE Zero

KPIs(frame) ==
    LET total_investment == Sum(frame.rows, "Investment")
        total_money_saved == Sum(frame.rows, "Money Saved")
        total_energy_saved == Sum(frame.rows, "Energy Saved")
    IN  [total_investment |-> total_investment,
         total_money_saved |-> total_money_saved,
         total_energy_saved |-> total_energy_saved,
         roi |-> Roi(total_money_saved, total_investment)]

\* groupby(col)['Measure'].count()
MeasureCounts(frame, col) ==
    [k \in GroupKeys(frame, col) |-> Count(Group(frame, col, k), "Measure")]

\* groupby('Comunidad Autonoma')[col].sum()
SumByCommunity(frame, col) ==
    [k \in GroupKeys(frame, ColCommunity) |->
        Sum(Group(frame, ColCommunity, k), col)]

\* The lambda of Average_Investment_per_Measure.
AverageInvestment(total, count) ==
    IF count > 0 THEN Quot(total, count) ELSE Zero

\* regional_investment_summary
RegionalInvestmentSummary(frame) ==
    [k \in GroupKeys(frame, ColCommunity) |->
        LET g == Group(frame, ColCommunity, k)
            total == Sum(g, "Investment")
            count == Count(g, "Measure")
        IN  [Total_Investment |-> total,
             Measure_Count |-> count,
             Average_Investment_per_Measure |-> AverageInvestment(total, count)]]

\* financial_summary
FinancialSummary(frame) ==
    [k \in GroupKeys(frame, ColCommunity) |->
        LET g == Group(frame, ColCommunity, k)
        IN  [Total_Investment |-> Sum(g, "Investment"),
             Total_Money_Saved |-> Sum(g, "Money Saved")]]

\* sort_values(..., ascending=False): the orders of the keys with the values
\* descending; the order among equal values is left to the sort.
SortedDesc(f) ==
    LET n == Cardinality(DOMAIN f)
    IN  {s \in [1..n -> DOMAIN f] :
            /\ \A i, j \in 1..n : i # j => s[i] # s[j]
            /\ \A i, j \in 1..n : i < j => f[s[i]] >= f[s[j]]}

\* The grouped tables of one pass, before sorting for display.
Aggregates(d, view, sel) ==
    [measure_counts |->
        IF sel = All THEN MeasureCounts(d, ColCommunity)
        ELSE MeasureCounts(view, "Center"),
     energy_savings_community |-> SumByCommunity(view, "Energy Saved"),
     regional_investment_summary |-> RegionalInvestmentSummary(view),
     economic_savings_community |-> SumByCommunity(view, "Money Saved"),
     financial_summary |-> FinancialSummary(view)]

----------------------------------------------------------------------------
(* Madrid detail *)

PercentCol == "Energy_Saving_Percent"

PercentNonZeroGuard(energy, total) ==
    IF total # 0 THEN Times100(Quot(energy, total)) ELSE Zero

\* One cell of df_madrid['Energy_Saving_Percent'].
EnergySavingPercent(energy, total) ==
    IF total > 0 THEN Times100(Quot(energy, total)) ELSE Zero

\* frame with the derived column assigned.
WithPercent(frame) ==
    LET total_energy_saved_madrid == Sum(frame.rows, "Energy Saved")
    IN  [columns |-> frame.columns \cup {PercentCol},
         rows |-> [i \in 1..Len(frame.rows) |->
                    [c \in frame.columns \cup {PercentCol} |->
                        IF c = PercentCol
                        THEN EnergySavingPercent(
                                 IF IsNum(frame.rows[i]["Energy Saved"])
                                 THEN frame.rows[i]["Energy Saved"].n ELSE 0,
                                 total_energy_saved_madrid)
                        ELSE frame.rows[i][c]]]]

NoCopy(ref) == ref

\* df_filtered.copy(): df_madrid names a fresh frame, whatever ref named.
CopyOf(ref) == "copy"

----------------------------------------------------------------------------
(* The session *)

Unset == [alias |-> FALSE, frame |-> EmptyDataFrame]

Init ==
    /\ fs \in {Missing} \cup {File(r) : r \in SeqsUpTo(RawRows, MaxRows)}
              \cup {Unreadable(r) : r \in SeqsUpTo(RawRows, MaxEditRows)}
    /\ cache = NoCache
    /\ widget = All
    /\ pc = "start"
    /\ fault = ""
    /\ loadOutcome = ""
    /\ df = EmptyDataFrame
    /\ selected = None
    /\ df_filtered = Unset
    /\ kpi = None
    /\ agg = None
    /\ df_madrid = None
    /\ rendered = {}

\* df = load_data(path), through the st.cache_data wrapper: a stored value is
\* returned as a copy with its recorded st.error replayed; otherwise the body
\* runs, and its result is stored unless it raised.
LoadData ==
    /\ pc = "start"
    /\ IF ServedFromCache(cache)
       THEN /\ df' = cache.value
            /\ rendered' = cache.msgs
            /\ loadOutcome' = "cache hit"
            /\ pc' = "loaded"
            /\ UNCHANGED <<cache, fault>>
       ELSE LET r == LoadDataBody(fs)
            IN  IF r.exc = ""
                THEN /\ cache' = [hit |-> TRUE, value |-> r.value, msgs |-> r.msgs]
                     /\ df' = r.value
                     /\ rendered' = r.msgs
                     /\ loadOutcome' = fs.kind
                     /\ pc' = "loaded"
                     /\ UNCHANGED fault
                ELSE /\ pc' = "fault"
                     /\ fault' = r.exc
                     /\ loadOutcome' = fs.kind
                     /\ UNCHANGED <<cache, df, rendered>>
    /\ UNCHANGED <<fs, widget, selected, df_filtered, kpi, agg, df_madrid>>

\* else: st.warning(...)
EmptyWarning ==
    /\ pc = "loaded"
    /\ DfEmpty(df)
    /\ rendered' = rendered \cup {WarningMsg}
    /\ pc' = "done"
    /\ UNCHANGED <<fs, cache, widget, fault, loadOutcome, df, selected,
                   df_filtered, kpi, agg, df_madrid>>

\* with st.sidebar: the option list, the selectbox and the filter.
SidebarFilter ==
    /\ pc = "loaded"
    /\ ~DfEmpty(df)
    /\ IF ColCommunity \notin df.columns
       THEN /\ pc' = "fault"
            /\ fault' = "KeyError"
            /\ UNCHANGED <<selected, df_filtered, rendered>>
       ELSE IF SortedRaises(Unique(df, ColCommunity))
       THEN /\ pc' = "fault"
            /\ fault' = "TypeError"
            /\ UNCHANGED <<selected, df_filtered>>
            /\ rendered' = rendered \cup {"sidebar title"}
       ELSE LET sel == IF widget \in CommunityList(df) THEN widget ELSE All
            IN  /\ selected' = sel
                /\ df_filtered' =
                      IF sel = All THEN [alias |-> TRUE, frame |-> EmptyDataFrame]
                      ELSE [alias |-> FALSE, frame |-> DfFiltered(df, sel)]
                /\ rendered' = rendered \cup {"sidebar title", "selectbox"}
                /\ pc' = "filtered"
                /\ UNCHANGED fault
    /\ UNCHANGED <<fs, cache, widget, loadOutcome, df, kpi, agg, df_madrid>>

\* The title and the four KPI metrics.
ComputeKPIs ==
    /\ pc = "filtered"
    /\ kpi' = KPIs(Deref(df, df_filtered))
    /\ rendered' = rendered \cup {"title", "kpis"}
    /\ pc' = "kpis"
    /\ UNCHANGED <<fs, cache, widget, fault, loadOutcome, df, selected,
                   df_filtered, agg, df_madrid>>

\* The two chart columns: the five grouped tables, two of them sorted.
ComputeCharts ==
    /\ pc = "kpis"
    /\ LET a == Aggregates(df, Deref(df, df_filtered), selected)
       IN  \E fig1 \in SortedDesc(a.measure_counts),
              fig5 \in SortedDesc(a.energy_savings_community) :
                agg' = [tables |-> a, fig1 |-> fig1, fig5 |-> fig5]
    /\ rendered' = rendered \cup {"fig1", "fig5", "summary table", "fig6", "fig7"}
    /\ pc' = "charts"
    /\ UNCHANGED <<fs, cache, widget, fault, loadOutcome, df, selected,
                   df_filtered, kpi, df_madrid>>

\* if selected_community == 'Madrid': the derived column on df_madrid.
ExtraCharts ==
    /\ pc = "charts"
    /\ IF selected = Madrid
       THEN LET ref == CopyOf(IF df_filtered.alias THEN "df" ELSE "view")
                withCol == WithPercent(Deref(df, df_filtered))
            IN  /\ df_madrid' = withCol
                /\ df' = IF ref = "df" THEN withCol ELSE df
                /\ df_filtered' = IF ref = "view"
                                  THEN [df_filtered EXCEPT !.frame = withCol]
                                  ELSE df_filtered
                /\ rendered' = rendered \cup {"extra_fig1"}
       ELSE UNCHANGED <<df_madrid, df, df_filtered, rendered>>
    /\ pc' = "done"
    /\ UNCHANGED <<fs, cache, widget, fault, loadOutcome, selected, kpi, agg>>

\* A rerun starts the script from the top with fresh script variables.
Restart ==
    /\ pc' = "start"
    /\ fault' = ""
    /\ loadOutcome' = ""
    /\ df' = EmptyDataFrame
    /\ selected' = None
    /\ df_filtered' = Unset
    /\ kpi' = None
    /\ agg' = None
    /\ df_madrid' = None
    /\ rendered' = {}

\* The user picks another option of the selectbox.
UserSelect ==
    /\ pc = "done"
    /\ selected # None
    /\ \E c \in CommunityList(df) \ {widget} : widget' = c
    /\ Restart
    /\ UNCHANGED <<fs, cache>>

\* The user reruns the app, after a finished pass or after an exception.
Rerun ==
    /\ pc \in {"done", "fault"}
    /\ Restart
    /\ UNCHANGED <<fs, cache, widget>>

\* The environment removes the file.
DeleteFile ==
    /\ fs.kind # "missing"
    /\ fs' = Missing
    /\ UNCHANGED <<cache, widget, pc, fault, loadOutcome, runVars>>

\* The environment creates or rewrites the file.
WriteFile ==
    /\ fs.kind # "unreadable"
    /\ \E r \in SeqsUpTo(RawRows, MaxEditRows) :
          /\ File(r) # fs
          /\ fs' = File(r)
    /\ UNCHANGED <<cache, widget, pc, fault, loadOutcome, runVars>>

\* The environment takes away or gives back the read permission.
Chmod ==
    /\ fs.kind # "missing"
    /\ fs' = [fs EXCEPT !.kind = IF @ = "file" THEN "unreadable" ELSE "file"]
    /\ UNCHANGED <<cache, widget, pc, fault, loadOutcome, runVars>>

Next ==
    \/ LoadData
    \/ EmptyWarning
    \/ SidebarFilter
    \/ ComputeKPIs
    \/ ComputeCharts
    \/ ExtraCharts
    \/ UserSelect
    \/ Rerun
    \/ DeleteFile
    \/ WriteFile
    \/ Chmod

Spec == Init /\ [][Next]_vars

----------------------------------------------------------------------------
(* Vocabulary of the properties *)

\* load_data has returned in the current pass.
Returned == pc # "start" /\ fault # "PermissionError"

\* The filtered view of the current pass.
View == Deref(df, df_filtered)

\* Record r is one the selection sel asks for.
Matches(r, sel) == sel = All \/ r[ColCommunity] = sel

\* The Records of frame that sel asks for, in order.
Wanted(frame, sel) == SelectSeq(frame.rows, LAMBDA r : Matches(r, sel))

\* The sum of a numeric column over rows 1..n, cell by cell.
RECURSIVE Total(_, _, _)
Total(rows, col, n) ==
    IF n = 0 THEN 0 ELSE Total(rows, col, n - 1) + rows[n][col].n

\* The sum of the values of f over the keys in S.
RECURSIVE SumF(_, _)
SumF(f, S) ==
    IF S = {} THEN 0
    ELSE LET k == CHOOSE x \in S : TRUE IN f[k] + SumF(f, S \ {k})

\* The number of rows whose column col holds k.
Members(rows, col, k) == Cardinality({i \in 1..Len(rows) : rows[i][col] = k})

----------------------------------------------------------------------------
\* C1: once the KPIs of a pass are computed, the selection is an option of
\* the selector, the filtered view holds exactly the Records whose community
\* equals the selection (all Records under 'All'), and the three totals are
\* the sums of Investment, Money Saved and Energy Saved over those Records.
C1_FilterAndTotals ==
    kpi # None =>
        LET want == Wanted(df, selected)
            n == Len(want)
        IN  /\ selected \in CommunityList(df)
            /\ View.rows = want
            /\ View.columns = df.columns
            /\ kpi.total_investment = Total(want, "Investment", n)
            /\ kpi.total_money_saved = Total(want, "Money Saved", n)
            /\ kpi.total_energy_saved = Total(want, "Energy Saved", n)

\* A pass with a community selected that leaves some Records out.
C1_Witness ==
    /\ pc = "done"
    /\ kpi # None
    /\ selected = Str("Cataluna")
    /\ Len(View.rows) = 1
    /\ Len(df.rows) = 2
    /\ kpi.total_investment = 2

\* C2: roi is (total_money_saved / total_investment) * 100 when
\* total_investment > 0 and is 0 otherwise, and no division by zero is made.
C2_Roi ==
    kpi # None =>
        /\ kpi.roi.den # 0
        /\ kpi.total_investment > 0 =>
              SameNumber(kpi.roi,
                         Quot(kpi.total_money_saved * 100, kpi.total_investment))
        /\ kpi.total_investment <= 0 => kpi.roi = Zero

\* Money was saved on a total investment of 0.
C2_Witness ==
    /\ kpi # None
    /\ kpi.total_investment = 0
    /\ kpi.total_money_saved > 0
    /\ kpi.roi = Zero

\* The cleaned frame against the raw lines it was read from.
Cleaned(raw, frame) ==
    /\ Len(frame.rows) = Len(raw)
    /\ \A i \in 1..Len(raw) : \A c \in NumericCols :
          /\ IsNum(frame.rows[i][c])
          /\ raw[i][c] \in DOMAIN NumLit => frame.rows[i][c].n = NumLit[raw[i][c]]
          /\ raw[i][c] \notin DOMAIN NumLit => frame.rows[i][c].n = 0

\* C3: no cell of the Dataset is ever NaN, and when load_data reads the file
\* every numeric cell that parses keeps its value while an empty or
\* unparsable one is exactly 0.
C3_NumericCells ==
    /\ [](\A i \in 1..Len(df.rows) : \A c \in df.columns : df.rows[i][c] # NaN)
    /\ [][(pc = "start" /\ pc' = "loaded" /\ loadOutcome' = "file")
            => Cleaned(fs.rows, df')]_vars

\* An Investment of "N/A" was loaded as 0 and the KPIs were computed.
C3_Witness ==
    /\ kpi # None
    /\ loadOutcome = "file"
    /\ fs.kind = "file"
    /\ Len(fs.rows) = 2
    /\ Len(df.rows) = 2
    /\ fs.rows[2]["Investment"] = "N/A"
    /\ df.rows[2]["Investment"] = Num(0)
    /\ selected = All
    /\ kpi.total_investment = 4

\* Nothing of the aggregator has run in the current pass.
NothingComputed ==
    /\ selected = None
    /\ df_filtered = Unset
    /\ kpi = None
    /\ agg = None
    /\ df_madrid = None

\* C4 as claimed: on an empty Dataset the warning is the only outcome.
C4_OnlyWarning ==
    (pc = "done" /\ DfEmpty(df)) => (NothingComputed /\ rendered = {WarningMsg})

\* C4 as amended: a missing path makes load_data return an empty Dataset
\* after showing its own "not found" error, and on an empty Dataset nothing is
\* computed and the pass shows only that error (if any) and the warning.
C4_EmptyDataset ==
    /\ (loadOutcome = "missing" /\ pc # "start") =>
          (Returned /\ DfEmpty(df) /\ ErrorMsg \in rendered)
    /\ (Returned /\ DfEmpty(df)) =>
          /\ pc \in {"loaded", "done"}
          /\ NothingComputed
          /\ rendered \subseteq {ErrorMsg, WarningMsg}
          /\ pc = "done" => WarningMsg \in rendered

\* A finished pass on a missing file.
C4_Witness ==
    /\ pc = "done"
    /\ loadOutcome = "missing"
    /\ rendered = {ErrorMsg, WarningMsg}

\* C5 as claimed: an unreadable path ends like a missing one.
C5_UnreadableLikeMissing ==
    (loadOutcome = "unreadable" /\ pc # "start") =>
        /\ fault = ""
        /\ DfEmpty(df)
        /\ pc \in {"loaded", "done"}

\* C5 as amended: reading an unreadable path raises PermissionError out of
\* load_data; the pass stops there with nothing shown, nothing computed and
\* nothing cached.
C5_UnreadableRaises ==
    loadOutcome = "unreadable" =>
        /\ pc = "fault"
        /\ fault = "PermissionError"
        /\ rendered = {}
        /\ NothingComputed
        /\ ~cache.hit

\* A pass that stopped on an unreadable file.
C5_Witness ==
    /\ loadOutcome = "unreadable"
    /\ fs.kind = "unreadable"
    /\ pc = "fault"

\* C6: once load_data has returned, every later call returns that same value
\* from the cache, whatever has become of the file.
C6_Cached ==
    [][cache.hit =>
          /\ cache' = cache
          /\ (pc = "start" /\ pc' # "start") =>
                (pc' = "loaded" /\ df' = cache.value /\ loadOutcome' = "cache hit")]_vars

\* A later call answered with the Dataset of a file that is gone.
C6_Witness ==
    /\ pc = "loaded"
    /\ loadOutcome = "cache hit"
    /\ fs.kind = "missing"
    /\ Len(df.rows) = 2

\* The grouped table t has one group per value of column col of rows, and the
\* function size gives each group exactly the rows holding its key.
Partitions(t, rows, col, size) ==
    /\ DOMAIN t = {rows[i][col] : i \in 1..Len(rows)}
    /\ \A k \in DOMAIN t : size[k] = Members(rows, col, k)
    /\ SumF(size, DOMAIN t) = Len(rows)

\* C7: in every grouped aggregate of a pass the groups are the values of the
\* grouping column over the filtered view, the measure counts are the group
\* sizes and add up to the number of Records of the view, and the per-group
\* sums add up to the KPI totals.
C7_GroupsPartitionView ==
    agg # None =>
        LET t == agg.tables
            rows == View.rows
            K == DOMAIN t.regional_investment_summary
            counts == [k \in K |-> t.regional_investment_summary[k].Measure_Count]
            invested == [k \in K |-> t.regional_investment_summary[k].Total_Investment]
            finInv == [k \in DOMAIN t.financial_summary |->
                          t.financial_summary[k].Total_Investment]
            finMoney == [k \in DOMAIN t.financial_summary |->
                            t.financial_summary[k].Total_Money_Saved]
        IN  /\ Partitions(t.measure_counts, rows,
                          IF selected = All THEN ColCommunity ELSE "Center",
                          t.measure_counts)
            /\ Partitions(t.regional_investment_summary, rows, ColCommunity, counts)
            /\ DOMAIN t.energy_savings_community = K
            /\ DOMAIN t.economic_savings_community = K
            /\ DOMAIN t.financial_summary = K
            /\ SumF(t.energy_savings_community, K) = kpi.total_energy_saved
            /\ SumF(t.economic_savings_community, K) = kpi.total_money_saved
            /\ SumF(invested, K) = kpi.total_investment
            /\ SumF(finInv, K) = kpi.total_investment
            /\ SumF(finMoney, K) = kpi.total_money_saved
            /\ {agg.fig1[i] : i \in DOMAIN agg.fig1} = DOMAIN t.measure_counts
            /\ {agg.fig5[i] : i \in DOMAIN agg.fig5} = K

\* Madrid is selected and one of its two Records had no Measure and no Center
\* in the file.
C7_Witness ==
    /\ agg # None
    /\ selected = Madrid
    /\ Len(View.rows) = 2
    /\ \E i \in 1..2 : /\ View.rows[i]["Measure"] = Num(0)
                       /\ View.rows[i]["Center"] = Num(0)
    /\ Cardinality(DOMAIN agg.tables.measure_counts) = 2

\* The derived column of frame is q(energy, T) on every row, T being the sum
\* of Energy Saved over rows.
PercentIs(frame, rows, q(_, _)) ==
    LET T == Total(rows, "Energy Saved", Len(rows))
    IN  /\ Len(frame.rows) = Len(rows)
        /\ \A i \in 1..Len(rows) :
              SameNumber(frame.rows[i][PercentCol],
                         q(rows[i]["Energy Saved"].n, T))

\* The percentage is made only for Madrid, on the Records of the view.
OnlyForMadrid ==
    /\ df_madrid # None => selected = Madrid
    /\ (pc = "done" /\ selected = Madrid) =>
          /\ df_madrid # None
          /\ df_madrid.columns = Columns \cup {PercentCol}
    /\ (pc = "done" /\ selected # Madrid) => df_madrid = None

\* C8 as claimed: the percentage is (energy_saved / T) * 100 whenever T is not
\* 0, and 0 when T is 0.
C8_PercentUnlessZero ==
    /\ OnlyForMadrid
    /\ df_madrid # None =>
          PercentIs(df_madrid, Wanted(cache.value, Madrid),
                    LAMBDA e, T : IF T # 0 THEN Quot(e * 100, T) ELSE Zero)

\* C8 as amended: the percentage is (energy_saved / T) * 100 when T > 0, and
\* 0 on every Record when T <= 0.
C8_PercentWhenPositive ==
    /\ OnlyForMadrid
    /\ df_madrid # None =>
          /\ PercentIs(df_madrid, Wanted(cache.value, Madrid),
                       LAMBDA e, T : IF T > 0 THEN Quot(e * 100, T) ELSE Zero)
          /\ Total(View.rows, "Energy Saved", Len(View.rows)) <= 0 =>
                \A i \in 1..Len(df_madrid.rows) :
                    df_madrid.rows[i][PercentCol] = Zero

\* Madrid's Records save a negative total, so each gets 0.
C8_Witness ==
    /\ pc = "done"
    /\ selected = Madrid
    /\ df_madrid # None
    /\ Len(df_madrid.rows) = 2
    /\ kpi.total_energy_saved < 0
    /\ df_madrid.rows[1][PercentCol] = Zero

\* C9: in every pass the Dataset is the value load_data returned, with its
\* columns, and the view, the KPIs and the grouped tables are those of that
\* Dataset and the current selection alone.
C9_DatasetImmutable ==
    (Returned /\ cache.hit) =>
        /\ df = cache.value
        /\ df.columns \in {Columns, {}}
        /\ selected # None => View = DfFiltered(cache.value, selected)
        /\ kpi # None => kpi = KPIs(DfFiltered(cache.value, selected))
        /\ agg # None =>
              agg.tables = Aggregates(cache.value,
                                      DfFiltered(cache.value, selected), selected)
        /\ df_madrid # None =>
              df_madrid = WithPercent(DfFiltered(cache.value, selected))

\* The Madrid detail was made in a later pass, after another selection, and
\* the Dataset has no derived column.
C9_Witness ==
    /\ pc = "done"
    /\ widget = Madrid
    /\ loadOutcome = "cache hit"
    /\ df_madrid # None
    /\ PercentCol \in df_madrid.columns
    /\ PercentCol \notin df.columns
    /\ Len(df.rows) > Len(df_madrid.rows)

\* C10: each row of the investment summary has the number of Records of its
\* community as Measure_Count, the sum of their Investment as
\* Total_Investment, and their quotient (0 for no Records) as the average,
\* never dividing by zero.
C10_InvestmentSummary ==
    agg # None =>
        \A k \in DOMAIN agg.tables.regional_investment_summary :
            LET row == agg.tables.regional_investment_summary[k]
                g == SelectSeq(View.rows, LAMBDA r : r[ColCommunity] = k)
                avg == row.Average_Investment_per_Measure
            IN  /\ row.Measure_Count = Len(g)
                /\ row.Total_Investment = Total(g, "Investment", Len(g))
                /\ avg.den # 0
                /\ row.Measure_Count > 0 =>
                      SameNumber(avg, Quot(row.Total_Investment, row.Measure_Count))
                /\ row.Measure_Count = 0 => avg = Zero

\* A community with two Records of the same Measure.
C10_Witness ==
    /\ agg # None
    /\ \E k \in DOMAIN agg.tables.regional_investment_summary :
          LET row == agg.tables.regional_investment_summary[k]
          IN  /\ row.Measure_Count = 2
              /\ row.Total_Investment = 4
              /\ row.Average_Investment_per_Measure = Quot(4, 2)

====
